---- MODULE Spec2Model ----
(***************************************************************************)
(* PaletteGenerator: the pixel recoloring engine of src/recolor.py, the    *)
(* batch drivers of src/main.py and src/app.py, and the colour conversions *)
(* and the palette store of src/palettes.py.                               *)
(*                                                                         *)
(* Engine (Spec, SpecCalls, SpecWorkers): a caller holds a decoded image   *)
(* and two palettes (lists of RGB tuples), calls recolor_image or          *)
(* create_emissive_texture, may feed the result of recolor_image back with *)
(* the palettes swapped, may write to the image it was handed back and may *)
(* call again.  Images are objects on a heap, referenced by their index,   *)
(* so that aliasing of input and output is observable.                     *)
(*                                                                         *)
(* Batch drivers (SpecBatch): run_cli and the web page take every file of  *)
(* a folder through every palette of every group and name the results.     *)
(*                                                                         *)
(* Colour conversions (SpecHex): hex_to_rgb and rgb_to_hex on strings.     *)
(*                                                                         *)
(* Palette store (SpecStore): the operations that load custom_palettes.json,*)
(* change the data and save it.                                            *)
(***************************************************************************)
EXTENDS Integers, Sequences, FiniteSets, TLC

\* ------------------------------------------------------------------ bounds

\* Longest palette the caller passes.
MaxLen == 2
\* Most pixels (width * height) of an input image; width and height are each
\* at most this, so 0 x n and n x 0 images are included.
MaxPixels == 2

\* ------------------------------------------------------------ input domains

\* RGB colours the palettes and the image are drawn from: the first source
\* and first target colour of the documented scenario, and black, which is the
\* RGB of the emissive fill.
Colors == { <<251, 251, 251>>, <<178, 60, 237>>, <<0, 0, 0>> }

\* Alpha values of the RGBA input images (opaque 255 arises from RGB input).
Alphas == { 128 }

\* What the caller writes into an image it got back.
WritePixels == { <<1, 2, 3, 4>> }

Modes == { "RGB", "RGBA" }

Min(a, b) == IF a < b THEN a ELSE b

\* Pixel positions (x, y) of a width x height image.
Positions(width, height) == (0 .. width - 1) \X (0 .. height - 1)

PixelsOf(mode) ==
  IF mode = "RGBA"
    THEN { <<c[1], c[2], c[3], a>> : c \in Colors, a \in Alphas }
    ELSE Colors

Sizes ==
  { s \in (0 .. MaxPixels) \X (0 .. MaxPixels) : s[1] * s[2] <= MaxPixels }

\* Every decoded image the caller may hold.
Images ==
  UNION { UNION { { [mode |-> m, width |-> s[1], height |-> s[2], px |-> f] :
                      f \in [Positions(s[1], s[2]) -> PixelsOf(m)] } :
                  s \in Sizes } :
          m \in Modes }

\* Every palette the caller may pass: a list of RGB tuples, possibly empty.
Palettes == UNION { [1 .. n -> Colors] : n \in 0 .. MaxLen }

\* ---------------------------------------------------------------- PIL model

\* Image.convert("RGBA"): always a new image object; a pixel without alpha
\* becomes opaque, an RGBA pixel is copied.
convert(im) ==
  [ mode   |-> "RGBA",
    width  |-> im.width,
    height |-> im.height,
    px     |-> [ p \in DOMAIN im.px |->
                   IF im.mode = "RGBA"
                     THEN im.px[p]
                     ELSE <<im.px[p][1], im.px[p][2], im.px[p][3], 255>> ] ]

\* Image.new("RGBA", (width, height), color): every pixel set to color.
Image_new(width, height, color) ==
  [ mode   |-> "RGBA",
    width  |-> width,
    height |-> height,
    px     |-> [ p \in Positions(width, height) |-> color ] ]

\* Image.new's default fill when no colour is given (0: transparent black).
DefaultFill == <<0, 0, 0, 0>>

\* A pairing that cycles through the shorter target list instead of stopping.
zip_cycle(a, b) ==
  [ i \in 1 .. (IF Len(b) = 0 THEN 0 ELSE Len(a)) |->
      <<a[i], b[((i - 1) % Len(b)) + 1]>> ]

\* zip(a, b): the pairs up to the shorter of the two lists.
zip(a, b) == [ i \in 1 .. Min(Len(a), Len(b)) |-> <<a[i], b[i]>> ]

\* A store that keeps the value of a key already there (dict.setdefault).
DictSetDefault(d, key, value) ==
  [ k \in DOMAIN d \cup {key} |-> IF k \in DOMAIN d THEN d[k] ELSE value ]

\* dict: color_map[key] = value, overwriting an existing key.
DictSet(d, key, value) ==
  [ k \in DOMAIN d \cup {key} |-> IF k = key THEN value ELSE d[k] ]

EmptyDict == [ k \in {} |-> <<>> ]

\* ------------------------------------------------------------- recolor.py

RECURSIVE color_map_loop(_, _, _)
\* for source_color, target_color in zip(...): color_map[source_color] = target_color
color_map_loop(pairs, i, d) ==
  IF i > Len(pairs)
    THEN d
    ELSE color_map_loop(pairs, i + 1, DictSet(d, pairs[i][1], pairs[i][2]))

color_map(source_palette, target_palette) ==
  color_map_loop(zip(source_palette, target_palette), 1, EmptyDict)

\* recolor_image without its else branch: an unmatched pixel is not copied.
recolor_pixel_drop(cm, current_pixel) ==
  LET rgb == <<current_pixel[1], current_pixel[2], current_pixel[3]>>
      a   == current_pixel[4]
  IN  IF rgb \in DOMAIN cm
        THEN <<cm[rgb][1], cm[rgb][2], cm[rgb][3], a>>
        ELSE <<0, 0, 0, 0>>

\* recolor_image storing the target's channels in reverse order.
recolor_pixel_bgr(cm, current_pixel) ==
  LET rgb == <<current_pixel[1], current_pixel[2], current_pixel[3]>>
      a   == current_pixel[4]
  IN  IF rgb \in DOMAIN cm
        THEN <<cm[rgb][3], cm[rgb][2], cm[rgb][1], a>>
        ELSE current_pixel

\* recolor_image storing a substituted pixel as opaque.
recolor_pixel_opaque(cm, current_pixel) ==
  LET rgb == <<current_pixel[1], current_pixel[2], current_pixel[3]>>
  IN  IF rgb \in DOMAIN cm
        THEN <<cm[rgb][1], cm[rgb][2], cm[rgb][3], 255>>
        ELSE current_pixel

\* What recolor_image stores at (x, y) for the input pixel found there.
recolor_pixel(cm, current_pixel) ==
  LET rgb == <<current_pixel[1], current_pixel[2], current_pixel[3]>>
      a   == current_pixel[4]
  IN  IF rgb \in DOMAIN cm
        THEN <<cm[rgb][1], cm[rgb][2], cm[rgb][3], a>>
        ELSE current_pixel

\* create_emissive_texture copying an unmatched pixel as recolor_image does.
emissive_pixel_copy(cm, current_pixel, old) ==
  LET rgb == <<current_pixel[1], current_pixel[2], current_pixel[3]>>
      a   == current_pixel[4]
  IN  IF rgb \in DOMAIN cm
        THEN <<cm[rgb][1], cm[rgb][2], cm[rgb][3], a>>
        ELSE current_pixel

\* create_emissive_texture storing a substituted pixel as opaque.
emissive_pixel_opaque(cm, current_pixel, old) ==
  LET rgb == <<current_pixel[1], current_pixel[2], current_pixel[3]>>
  IN  IF rgb \in DOMAIN cm
        THEN <<cm[rgb][1], cm[rgb][2], cm[rgb][3], 255>>
        ELSE old

\* What create_emissive_texture does to the output pixel at (x, y), which
\* holds old: a matched pixel is stored, any other is not touched.
emissive_pixel(cm, current_pixel, old) ==
  LET rgb == <<current_pixel[1], current_pixel[2], current_pixel[3]>>
      a   == current_pixel[4]
  IN  IF rgb \in DOMAIN cm
        THEN <<cm[rgb][1], cm[rgb][2], cm[rgb][3], a>>
        ELSE old

\* The position the k-th iteration of the nested loops visits:
\* for y in range(height): for x in range(width).
ScanPos(width, k) == <<k % width, k \div width>>

RECURSIVE recolor_loop(_, _, _, _)
\* st = [out, raised]: the output image so far and whether a pixel access
\* raised IndexError.  k counts the iterations done.
recolor_loop(pixels, cm, st, k) ==
  IF st.raised \/ k >= pixels.width * pixels.height
    THEN st
    ELSE LET p == ScanPos(pixels.width, k)
         IN  IF p \notin DOMAIN pixels.px \/ p \notin DOMAIN st.out.px
               THEN [st EXCEPT !.raised = TRUE]
               ELSE recolor_loop(pixels, cm,
                      [st EXCEPT !.out.px[p] = recolor_pixel(cm, pixels.px[p])],
                      k + 1)

RECURSIVE emissive_loop(_, _, _, _)
emissive_loop(pixels, cm, st, k) ==
  IF st.raised \/ k >= pixels.width * pixels.height
    THEN st
    ELSE LET p == ScanPos(pixels.width, k)
         IN  IF p \notin DOMAIN pixels.px \/ p \notin DOMAIN st.out.px
               THEN [st EXCEPT !.raised = TRUE]
               ELSE emissive_loop(pixels, cm,
                      [st EXCEPT !.out.px[p] =
                         emissive_pixel(cm, pixels.px[p], st.out.px[p])],
                      k + 1)

\* An output image allocated as (height, width).
recolor_new_swapped(width, height) == Image_new(height, width, DefaultFill)

\* The output image recolor_image allocates.
recolor_new(width, height) == Image_new(width, height, DefaultFill)

\* An output image allocated as (height, width).
emissive_new_swapped(width, height) == Image_new(height, width, <<0, 0, 0, 0>>)

\* The output image create_emissive_texture allocates.
emissive_new(width, height) == Image_new(width, height, <<0, 0, 0, 0>>)

\* recolor_image working on the caller's image object and returning it.
recolor_image_inplace(hp, image, source_palette, target_palette) ==
  LET pixels == convert(hp[image])
      cm     == color_map(source_palette, target_palette)
      st     == recolor_loop(pixels, cm, [out |-> pixels, raised |-> FALSE], 0)
  IN  [ heap           |-> [hp EXCEPT ![image] = st.out],
        source_palette |-> source_palette,
        target_palette |-> target_palette,
        ret            |-> IF st.raised THEN 0 ELSE image,
        raised         |-> st.raised ]

\* recolor_image(image, source_palette, target_palette) called with the heap
\* hp, image a reference into it.  The result is the heap after the call, the
\* two palette lists as the call leaves them, the reference returned (0 when
\* the call raised) and whether it raised.
recolor_image(hp, image, source_palette, target_palette) ==
  LET pixels == convert(hp[image])
      hp1    == Append(hp, pixels)
      cm     == color_map(source_palette, target_palette)
      hp2    == Append(hp1, recolor_new(pixels.width, pixels.height))
      ref    == Len(hp2)
      st     == recolor_loop(pixels, cm, [out |-> hp2[ref], raised |-> FALSE], 0)
  IN  [ heap           |-> [hp2 EXCEPT ![ref] = st.out],
        source_palette |-> source_palette,
        target_palette |-> target_palette,
        ret            |-> IF st.raised THEN 0 ELSE ref,
        raised         |-> st.raised ]

\* create_emissive_texture keeping one output buffer across calls: the image
\* allocated last is used again, without the (0,0,0,0) fill, when it fits.
create_emissive_texture_reuse(hp, image, source_palette, target_palette) ==
  LET pixels == convert(hp[image])
      hp1    == Append(hp, pixels)
      cm     == color_map(source_palette, target_palette)
      last   == hp[Len(hp)]
      buffer == IF /\ last.mode = "RGBA"
                   /\ last.width = pixels.width
                   /\ last.height = pixels.height
                  THEN last
                  ELSE emissive_new(pixels.width, pixels.height)
      hp2    == Append(hp1, buffer)
      ref    == Len(hp2)
      st     == emissive_loop(pixels, cm, [out |-> hp2[ref], raised |-> FALSE], 0)
  IN  [ heap           |-> [hp2 EXCEPT ![ref] = st.out],
        source_palette |-> source_palette,
        target_palette |-> target_palette,
        ret            |-> IF st.raised THEN 0 ELSE ref,
        raised         |-> st.raised ]

create_emissive_texture(hp, image, source_palette, target_palette) ==
  LET pixels == convert(hp[image])
      hp1    == Append(hp, pixels)
      cm     == color_map(source_palette, target_palette)
      hp2    == Append(hp1, emissive_new(pixels.width, pixels.height))
      ref    == Len(hp2)
      st     == emissive_loop(pixels, cm, [out |-> hp2[ref], raised |-> FALSE], 0)
  IN  [ heap           |-> [hp2 EXCEPT ![ref] = st.out],
        source_palette |-> source_palette,
        target_palette |-> target_palette,
        ret            |-> IF st.raised THEN 0 ELSE ref,
        raised         |-> st.raised ]

\* ------------------------------------------------------------------- state

VARIABLES
  heap,            \* the image objects, by reference (index)
  image,           \* the caller's input image (a reference)
  source_palette,  \* the caller's source palette list
  target_palette,  \* the caller's target palette list
  output_image,    \* what the first call returned (0: nothing yet, or raised)
  restored,        \* what the call back with swapped palettes returned
  raised,          \* whether a call raised
  pc,              \* "ready", "recolor", "emissive", "back" or "written"
  called,          \* the operation of the first call ("" before it)
  given,           \* the inputs as they were when the caller made them
  first_out,       \* the image the first call returned, as it was returned
  second,          \* what a later call with the first call's arguments returned
  second_op,       \* the operation of that later call ("" before it)
  \* the pixel loop run by workers on disjoint rows
  w_op,            \* the operation the workers run ("" before they start)
  w_pixels,        \* the converted input, read by every worker
  w_cm,            \* the ColorMap, read by every worker
  w_out,           \* the output image, written by every worker
  w_todo,          \* the positions no worker has processed yet
  \* the batch drivers (main.py, app.py)
  b_folder,        \* the input files, in the order the driver takes them
  b_groups,        \* palette_groups, in the order of iteration
  b_emissive,      \* generate_emissive
  b_pc,            \* "idle", "cli", "done", "web" or "crashed"
  b_next,          \* the index in b_folder of the file run_cli takes next
  b_generated,     \* the generated/ folder: file name -> the result it holds
  b_results,       \* all_results: (filename, palette name) -> the result
  b_recolored,     \* the calls of recolor_image that returned, in order
  b_errors,        \* the files for which an error was printed
  b_sources,       \* the names of the source palettes, in the store's order
  b_source,        \* the source palette run_cli chose ("": none)
  \* the colour conversions (palettes.py)
  hx_given_hex,    \* the hex string the conversions started from ("": none)
  hx_given_rgb,    \* the RGB tuple the conversions started from (<<>>: none)
  hx_hex,          \* the hex string at hand
  hx_rgb,          \* the RGB tuple at hand
  hx_pc,           \* "hex" or "rgb": what the last conversion returned
  \* the palette store (palettes.py)
  s_file,          \* custom_palettes.json
  s_before,        \* custom_palettes.json when the operation was called
  s_op,            \* the operation called ("": none yet)
  s_args,          \* its arguments
  s_ret,           \* "True", "False" or "raised" ("": not returned)
  \* store operations run by several web sessions at a time
  sessions         \* of each session: its position, operation and local data

engineVars == << heap, image, source_palette, target_palette, output_image,
                 restored, raised, pc, called, given, first_out, second,
                 second_op >>

workerVars == << w_op, w_pixels, w_cm, w_out, w_todo >>

batchVars == << b_folder, b_groups, b_emissive, b_pc, b_next, b_generated,
                b_results, b_recolored, b_errors, b_sources, b_source >>

hexVars == << hx_given_hex, hx_given_rgb, hx_hex, hx_rgb, hx_pc >>

storeVars == << s_file, s_before, s_op, s_args, s_ret >>

sessionVars == << sessions >>

\* The state of the other parts of the program, which the engine never touches.
notEngine == << workerVars, batchVars, hexVars, storeVars, sessionVars >>

\* The state the workers never touch, the engine's apart.
notWorkers == << batchVars, hexVars, storeVars, sessionVars >>

\* The state the batch drivers never touch.
notBatch == << engineVars, workerVars, hexVars, storeVars, sessionVars >>

\* The state the colour conversions never touch.
notHex == << engineVars, workerVars, batchVars, storeVars, sessionVars >>

\* The state the palette store never touches.
notStore == << engineVars, workerVars, batchVars, hexVars, sessionVars >>

\* The state the sessions never touch: all but custom_palettes.json and
\* their own.
notSessions == << engineVars, workerVars, batchVars, hexVars,
                 s_before, s_op, s_args, s_ret >>

vars == << engineVars, notEngine >>

\* The workers have not been started.
WorkerIdle ==
  /\ w_op = ""
  /\ w_pixels = [ mode |-> "none", width |-> 0, height |-> 0, px |-> << >> ]
  /\ w_cm = << >>
  /\ w_out = [ mode |-> "none", width |-> 0, height |-> 0, px |-> << >> ]
  /\ w_todo = {}

\* No batch is set up: nothing to process, nothing produced.
BatchIdle ==
  /\ b_folder = << >>
  /\ b_groups = << >>
  /\ b_emissive = FALSE
  /\ b_pc = "off"
  /\ b_next = 0
  /\ b_generated = << >>
  /\ b_results = << >>
  /\ b_recolored = << >>
  /\ b_errors = {}
  /\ b_sources = << >>
  /\ b_source = ""

\* No colour is being converted.
HexIdle ==
  /\ hx_given_hex = ""
  /\ hx_given_rgb = << >>
  /\ hx_hex = ""
  /\ hx_rgb = << >>
  /\ hx_pc = "off"

\* custom_palettes.json does not exist and no store operation is called.
StoreIdle ==
  /\ s_file = [ kind |-> "missing" ]
  /\ s_before = [ kind |-> "missing" ]
  /\ s_op = "off"
  /\ s_args = << >>
  /\ s_ret = ""

\* No web session runs a store operation.
SessionsIdle == sessions = << >>

\* The parts of the program other than the engine are at rest.
NotEngineIdle ==
  WorkerIdle /\ BatchIdle /\ HexIdle /\ StoreIdle /\ SessionsIdle

\* No image: what first_out holds before the first call returns.
NoImage == [ mode |-> "none", width |-> 0, height |-> 0, px |-> << >> ]

\* The engine before any call, for inputs im, sp and tp.
EngineInit(im, sp, tp) ==
  /\ heap = << im >>
  /\ image = 1
  /\ source_palette = sp
  /\ target_palette = tp
  /\ output_image = 0
  /\ restored = 0
  /\ raised = FALSE
  /\ pc = "ready"
  /\ called = ""
  /\ given = [ image |-> im, source_palette |-> sp, target_palette |-> tp ]
  /\ first_out = NoImage
  /\ second = 0
  /\ second_op = ""

Init ==
  /\ \E im \in Images, sp \in Palettes, tp \in Palettes : EngineInit(im, sp, tp)
  /\ NotEngineIdle

\* The caller calls recolor_image(image, source_palette, target_palette).
Recolor ==
  /\ pc = "ready"
  /\ \E r \in { recolor_image(heap, image, source_palette, target_palette) } :
         /\ heap' = r.heap
         /\ source_palette' = r.source_palette
         /\ target_palette' = r.target_palette
         /\ output_image' = r.ret
         /\ raised' = r.raised
         /\ first_out' = IF output_image' = 0 THEN NoImage
                                             ELSE heap'[output_image']
  /\ pc' = "recolor"
  /\ called' = "recolor"
  /\ UNCHANGED << image, restored, given, second, second_op, notEngine >>

\* The caller calls create_emissive_texture(image, source_palette, target_palette).
Emissive ==
  /\ pc = "ready"
  /\ \E r \in { create_emissive_texture(heap, image, source_palette,
                                         target_palette) } :
         /\ heap' = r.heap
         /\ source_palette' = r.source_palette
         /\ target_palette' = r.target_palette
         /\ output_image' = r.ret
         /\ raised' = r.raised
         /\ first_out' = IF output_image' = 0 THEN NoImage
                                             ELSE heap'[output_image']
  /\ pc' = "emissive"
  /\ called' = "emissive"
  /\ UNCHANGED << image, restored, given, second, second_op, notEngine >>

\* The caller passes the recolored image back with the palettes swapped:
\* recolor_image(recolor_image(image, A, B), B, A).
RecolorBack ==
  /\ pc = "recolor"
  /\ output_image # 0
  /\ \E r \in { recolor_image(heap, output_image, target_palette,
                               source_palette) } :
         /\ heap' = r.heap
         /\ target_palette' = r.source_palette
         /\ source_palette' = r.target_palette
         /\ restored' = r.ret
         /\ raised' = r.raised
  /\ pc' = "back"
  /\ UNCHANGED << image, output_image, called, given, first_out, second,
                  second_op, notEngine >>

\* The caller writes one pixel of the image the first call returned.
PutPixel ==
  /\ pc \in { "recolor", "emissive" }
  /\ output_image # 0
  /\ \E p \in DOMAIN heap[output_image].px, v \in WritePixels :
       heap' = [heap EXCEPT ![output_image].px[p] = v]
  /\ pc' = "written"
  /\ UNCHANGED << image, source_palette, target_palette, output_image,
                  restored, raised, called, given, first_out, second,
                  second_op, notEngine >>

Next == Recolor \/ Emissive \/ RecolorBack \/ PutPixel

Spec == Init /\ [][Next]_vars

\* ------------------------------------------------ repeated calls (recolor.py)

\* The colours of the inputs of the repeated calls: one that substitution
\* changes and black.
CallColors == { <<251, 251, 251>>, <<0, 0, 0>> }

CallImages ==
  { im \in Images :
      \A p \in DOMAIN im.px : <<im.px[p][1], im.px[p][2], im.px[p][3]>> \in CallColors }

CallPalettes == { pl \in Palettes : \A i \in DOMAIN pl : pl[i] \in CallColors }

InitCalls ==
  /\ \E im \in CallImages, sp \in CallPalettes, tp \in CallPalettes :
       EngineInit(im, sp, tp)
  /\ NotEngineIdle

\* After the first call, and whatever the caller did since (a call on the
\* result with the palettes swapped, a write to the result), the caller calls
\* recolor_image or create_emissive_texture with the first call's arguments.
Second ==
  /\ pc \in { "recolor", "emissive", "back", "written" }
  /\ \E op \in { "recolor", "emissive" } :
     \E r \in { IF op = "recolor"
                  THEN recolor_image(heap, image, source_palette,
                                     target_palette)
                  ELSE create_emissive_texture(heap, image, source_palette,
                                               target_palette) } :
       /\ heap' = r.heap
       /\ source_palette' = r.source_palette
       /\ target_palette' = r.target_palette
       /\ second' = r.ret
       /\ raised' = r.raised
       /\ second_op' = op
  /\ pc' = "second"
  /\ UNCHANGED << image, output_image, restored, called, given, first_out,
                  notEngine >>

NextCalls == Recolor \/ Emissive \/ RecolorBack \/ PutPixel \/ Second

SpecCalls == InitCalls /\ [][NextCalls]_vars

\* ------------------------------------- the pixel loop by rows (recolor.py)

\* Workers that share the rows of the image.
NWorkers == 2

\* The worker that takes row y.
WorkerOf(y) == (y % NWorkers) + 1

\* The body of recolor_image's loop at position p, carrying the value stored
\* last over to an unmatched pixel: a body that depends on the scan order.
recolor_body_carry(pixels, cm, out, p) ==
  LET q   == pixels.px[p]
      rgb == <<q[1], q[2], q[3]>>
      prv == IF p[1] > 0 THEN <<p[1] - 1, p[2]>> ELSE <<pixels.width - 1, p[2] - 1>>
  IN  [ out EXCEPT !.px[p] =
          IF rgb \in DOMAIN cm \/ prv \notin DOMAIN out.px
            THEN recolor_pixel(cm, q)
            ELSE out.px[prv] ]

\* The body of recolor_image's loop at position p = (x, y): it reads
\* pixels[x, y] and color_map and stores output_pixels[x, y].
recolor_body(pixels, cm, out, p) ==
  [ out EXCEPT !.px[p] = recolor_pixel(cm, pixels.px[p]) ]

\* The body of create_emissive_texture's loop at position p = (x, y).
emissive_body(pixels, cm, out, p) ==
  [ out EXCEPT !.px[p] = emissive_pixel(cm, pixels.px[p], out.px[p]) ]

\* The part of either function before its loop: the input converted, the
\* ColorMap built, the output image allocated; every position is to do.
StartWorkers ==
  /\ w_op = ""
  /\ \E op \in { "recolor", "emissive" } :
       LET pixels == convert(heap[image])
       IN  /\ w_op' = op
           /\ w_pixels' = pixels
           /\ w_cm' = color_map(source_palette, target_palette)
           /\ w_out' = IF op = "recolor"
                         THEN recolor_new(pixels.width, pixels.height)
                         ELSE emissive_new(pixels.width, pixels.height)
           /\ w_todo' = DOMAIN pixels.px
  /\ UNCHANGED << engineVars, notWorkers >>

\* Worker w runs the loop body at one position, in any order, of a row it has.
WorkerStep(w) ==
  /\ w_op # ""
  /\ \E p \in w_todo :
       /\ WorkerOf(p[2]) = w
       /\ w_out' = IF w_op = "recolor"
                     THEN recolor_body(w_pixels, w_cm, w_out, p)
                     ELSE emissive_body(w_pixels, w_cm, w_out, p)
       /\ w_todo' = w_todo \ {p}
  /\ UNCHANGED << engineVars, notWorkers, w_op, w_pixels, w_cm >>

NextWorkers == StartWorkers \/ \E w \in 1 .. NWorkers : WorkerStep(w)

SpecWorkers == InitCalls /\ [][NextWorkers]_vars

\* ------------------------------------------- batch drivers (main.py, app.py)

\* The engine is not in use: no image, empty palettes, no call made.
EngineIdle == EngineInit(NoImage, << >>, << >>)

\* The parts of the program other than the batch drivers are at rest.
NotBatchIdle ==
  EngineIdle /\ WorkerIdle /\ HexIdle /\ StoreIdle /\ SessionsIdle

\* File names of the input folder: two names that differ in the case of the
\* suffix only, and one whose stem holds the separator of the output names.
FileNames == { "a.png", "a.PNG", "a_b.png" }

\* What a file holds: a PNG image, bytes that are no image at all, or a PNG
\* image cut short after its header.
FileContents == { "png", "garbage", "truncated" }

InputFiles == [ name : FileNames, content : FileContents ]

\* get_png_files: the files matching *.png, then those matching *.PNG (on a
\* file system that tells the two apart); no name twice.
IsPngListing(fs) ==
  \A i \in DOMAIN fs : \A j \in DOMAIN fs :
    i < j => /\ fs[i].name # fs[j].name
             /\ ~ (fs[i].name = "a.PNG" /\ fs[j].name # "a.PNG")

Folders ==
  { fs \in { << >> } \cup { <<f>> : f \in InputFiles }
             \cup { <<f, g>> : f \in InputFiles, g \in InputFiles } :
      IsPngListing(fs) }

\* Names of palette groups and of target palettes; a palette name may hold
\* the separator of the output names.
GroupNames == { "G1", "G2" }
PaletteNames == { "c", "b_c" }

\* The palettes of one group, a dict: no name twice, in insertion order.
GroupPalettes ==
  { << >> } \cup { <<p>> : p \in PaletteNames }
            \cup { pq \in PaletteNames \X PaletteNames : pq[1] # pq[2] }

\* palette_groups, a dict of dicts: no group name twice; the same palette
\* name may be in several groups.
PaletteGroupDicts ==
  LET G == [ name : GroupNames, palettes : GroupPalettes ]
  IN  { << >> } \cup { <<g>> : g \in G }
                \cup { gh \in G \X G : gh[1].name # gh[2].name }

\* The (group name, palette name) pairs in the order the two nested loops
\* over palette_groups.items() and palettes.items() take them.
RECURSIVE Pairs(_)
Pairs(palette_groups) ==
  IF palette_groups = << >>
    THEN << >>
    ELSE [ k \in 1 .. Len(palette_groups[1].palettes) |->
             << palette_groups[1].name, palette_groups[1].palettes[k] >> ]
         \o Pairs(Tail(palette_groups))

\* Path(name).stem of a name ending in ".png" or ".PNG".
stem(name) == SubSeq(name, 1, Len(name) - 4)

\* f"{basename}_{palette_name}.png"
OutputName(basename, palette_name) == basename \o "_" \o palette_name \o ".png"

\* f"{basename}_{palette_name}_emissive.png"
EmissiveName(basename, palette_name) ==
  basename \o "_" \o palette_name \o "_emissive.png"

\* f"{basename}_{palette_name}. png", the name of a ZIP entry.
ZipPath(basename, palette_name) == basename \o "_" \o palette_name \o ". png"

\* The image a call for file i of the batch and palette pr[2] of group pr[1]
\* returned.
ResultOf(i, pr, kind) ==
  [ file |-> i, group |-> pr[1], palette |-> pr[2], kind |-> kind ]

\* process_image's loops from pair k on, for file i with basename.
RECURSIVE process_pairs(_, _, _, _, _, _)
process_pairs(st, i, basename, pairs, generate_emissive, k) ==
  IF k > Len(pairs)
    THEN st
    ELSE LET pr == pairs[k]
             g1 == DictSet(st.generated, OutputName(basename, pr[2]),
                           ResultOf(i, pr, "recolor"))
             g2 == IF generate_emissive
                     THEN DictSet(g1, EmissiveName(basename, pr[2]),
                                  ResultOf(i, pr, "emissive"))
                     ELSE g1
         IN  process_pairs([ st EXCEPT !.generated = g2,
                                       !.recolored = Append(@, << i, pr >>) ],
                           i, basename, pairs, generate_emissive, k + 1)

\* process_image for file i = image_path.  Image.open raises on bytes that
\* are no image, which is caught and printed; it reads the header only, so an
\* image cut short raises in the first recolor_image call (image.convert),
\* which nothing catches.
process_image(st, i, image_path, palette_groups, generate_emissive) ==
  IF image_path.content = "garbage"
    THEN [ st EXCEPT !.errors = @ \cup {i} ]
    ELSE IF image_path.content = "truncated" /\ Pairs(palette_groups) # << >>
      THEN [ st EXCEPT !.raised = TRUE ]
      ELSE process_pairs(st, i, stem(image_path.name), Pairs(palette_groups),
                         generate_emissive, 1)

\* The keys of source_palettes as get_source_palettes returns them, in
\* insertion order: none, "Default" behind another, and no "Default".
SourceDicts == { << >>, << "S", "Default" >>, << "T", "S" >> }

InitBatch ==
  /\ NotBatchIdle
  /\ b_folder \in Folders
  /\ b_groups \in PaletteGroupDicts
  /\ b_emissive \in BOOLEAN
  /\ b_pc = "idle"
  /\ b_next = 0
  /\ b_generated = EmptyDict
  /\ b_results = EmptyDict
  /\ b_recolored = << >>
  /\ b_errors = {}
  /\ b_sources \in SourceDicts
  /\ b_source = ""

\* run_cli up to its loop over png_files: it returns when there is no file.
\* Otherwise it chooses the source palette with
\* source_palettes.get("Default", list(source_palettes.values())[0]): the
\* second argument is evaluated before the call, and [0] of an empty list
\* raises IndexError, which nothing catches.
RunCli ==
  /\ b_pc = "idle"
  /\ b_next' = 1
  /\ IF b_folder = << >>
       THEN b_pc' = "done" /\ b_source' = b_source
       ELSE IF b_sources = << >>
         THEN b_pc' = "crashed" /\ b_source' = b_source
         ELSE /\ b_pc' = "cli"
              /\ b_source' = IF \E k \in DOMAIN b_sources :
                                    b_sources[k] = "Default"
                                THEN "Default"
                                ELSE b_sources[1]
  /\ UNCHANGED << b_folder, b_groups, b_emissive, b_generated, b_results,
                  b_recolored, b_errors, b_sources, notBatch >>

\* One iteration of run_cli's loop: process_image for the next file.  What
\* process_image raises leaves run_cli, and the interpreter.
ProcessImage ==
  /\ b_pc = "cli"
  /\ b_next <= Len(b_folder)
  /\ LET st == process_image([ generated |-> b_generated,
                               recolored |-> b_recolored,
                               errors    |-> b_errors,
                               raised    |-> FALSE ],
                             b_next, b_folder[b_next], b_groups, b_emissive)
     IN  /\ b_generated' = st.generated
         /\ b_recolored' = st.recolored
         /\ b_errors' = st.errors
         /\ b_pc' = IF st.raised THEN "crashed" ELSE "cli"
         /\ b_next' = IF st.raised THEN b_next ELSE b_next + 1
  /\ UNCHANGED << b_folder, b_groups, b_emissive, b_results, b_sources,
                  b_source, notBatch >>

\* run_cli after its loop.
CliDone ==
  /\ b_pc = "cli"
  /\ b_next > Len(b_folder)
  /\ b_pc' = "done"
  /\ UNCHANGED << b_folder, b_groups, b_emissive, b_next, b_generated,
                  b_results, b_recolored, b_errors, b_sources, b_source,
                  notBatch >>

\* recolor_page's inner loop over selected_palettes from pair k on, for
\* uploaded file i named filename.
RECURSIVE generate_pairs(_, _, _, _, _)
generate_pairs(st, i, filename, pairs, k) ==
  IF k > Len(pairs)
    THEN st
    ELSE generate_pairs(
           [ st EXCEPT !.all_results = DictSet(@, << filename, pairs[k][2] >>,
                                               ResultOf(i, pairs[k], "recolor")),
                       !.recolored = Append(@, << i, pairs[k] >>) ],
           i, filename, pairs, k + 1)

\* recolor_page's loop over uploaded_files from file i on.  all_results[filename]
\* starts empty for each file; load_image_from_bytes raises on bytes that are
\* no image and recolor_image on an image cut short, and nothing catches it.
RECURSIVE generate_files(_, _, _, _)
generate_files(st, uploaded_files, pairs, i) ==
  IF i > Len(uploaded_files) \/ st.raised
    THEN st
    ELSE LET f     == uploaded_files[i]
             reset == [ k \in { k \in DOMAIN st.all_results : k[1] # f.name } |->
                          st.all_results[k] ]
             s1    == [ st EXCEPT !.all_results = reset ]
         IN  IF f.content # "png"
               THEN [ s1 EXCEPT !.raised = TRUE ]
               ELSE generate_files(generate_pairs(s1, i, f.name, pairs, 1),
                                   uploaded_files, pairs, i + 1)

\* recolor_page, the "Generate Recolored Images" button, with every palette
\* of every group selected: enabled when there are files and palettes; the
\* results reach the session state when the loop ran to its end.
Generate ==
  /\ b_pc = "idle"
  /\ b_folder # << >>
  /\ Pairs(b_groups) # << >>
  /\ LET st == generate_files([ all_results |-> EmptyDict,
                                recolored   |-> b_recolored,
                                raised      |-> FALSE ],
                              b_folder, Pairs(b_groups), 1)
     IN  /\ b_results' = IF st.raised THEN b_results ELSE st.all_results
         /\ b_recolored' = st.recolored
         /\ b_pc' = IF st.raised THEN "crashed" ELSE "web"
  /\ UNCHANGED << b_folder, b_groups, b_emissive, b_next, b_generated,
                  b_errors, b_sources, b_source, notBatch >>

\* create_zip_file: the entries of the archive, by name.
create_zip_file(images_dict) ==
  { [ name   |-> ZipPath(stem(k[1]), k[2]),
      result |-> images_dict[k] ] : k \in DOMAIN images_dict }

NextBatch == RunCli \/ ProcessImage \/ CliDone \/ Generate

SpecBatch == InitBatch /\ [][NextBatch]_vars

\* ------------------------------------------ colour conversions (palettes.py)

\* The parts of the program other than the colour conversions are at rest.
NotHexIdle ==
  EngineIdle /\ WorkerIdle /\ BatchIdle /\ StoreIdle /\ SessionsIdle

\* The digits int(..., 16) reads, by value: lower case and upper case.
LowerDigits == "0123456789abcdef"
UpperDigits == "0123456789ABCDEF"

\* The character of s at 0-based index i, as a string.
CharAt(s, i) == SubSeq(s, i + 1, i + 1)

\* A reading of hexadecimal digits that knows the upper-case letters only
\* and takes any other letter for 0.
digit16_upper(ch) ==
  IF \E v \in 0 .. 15 : CharAt(UpperDigits, v) = ch
    THEN CHOOSE v \in 0 .. 15 : CharAt(UpperDigits, v) = ch
    ELSE 0

\* The value of one hexadecimal digit, in either case.
digit16(ch) ==
  IF \E v \in 0 .. 15 : CharAt(LowerDigits, v) = ch
    THEN CHOOSE v \in 0 .. 15 : CharAt(LowerDigits, v) = ch
    ELSE CHOOSE v \in 0 .. 15 : CharAt(UpperDigits, v) = ch

\* int(s, 16) for a non-empty string of hexadecimal digits.
RECURSIVE int16(_)
int16(s) ==
  IF Len(s) = 1
    THEN digit16(s)
    ELSE int16(SubSeq(s, 1, Len(s) - 1)) * 16 + digit16(CharAt(s, Len(s) - 1))

\* s.lstrip(ch): every leading ch removed.
RECURSIVE lstrip(_, _)
lstrip(s, ch) ==
  IF Len(s) > 0 /\ CharAt(s, 0) = ch
    THEN lstrip(SubSeq(s, 2, Len(s)), ch)
    ELSE s

\* s[a:b]
Slice(s, a, b) == SubSeq(s, a + 1, Min(b, Len(s)))

\* hex_to_rgb
hex_to_rgb(hex_color) ==
  LET h == lstrip(hex_color, "#")
  IN  << int16(Slice(h, 0, 2)), int16(Slice(h, 2, 4)), int16(Slice(h, 4, 6)) >>

\* format(n, "X"): n >= 0 in upper-case hexadecimal digits.
RECURSIVE format_X(_)
format_X(n) ==
  IF n < 16
    THEN CharAt(UpperDigits, n)
    ELSE format_X(n \div 16) \o CharAt(UpperDigits, n % 16)

\* "{:02X}".format(n): at least two digits, padded with 0.
format_02X(n) == IF n < 16 THEN "0" \o format_X(n) ELSE format_X(n)

\* rgb_to_hex
rgb_to_hex(rgb) ==
  "#" \o format_02X(rgb[1]) \o format_02X(rgb[2]) \o format_02X(rgb[3])

\* Two hexadecimal digits of a channel, in every mix of letter case.
ChannelStrings == { "00", "0a", "0A", "fb", "fB", "FB" }

\* Six-digit hex strings, with and without the leading '#'.
HexInputs ==
  { p \o a \o b \o c :
      p \in { "", "#" }, a \in ChannelStrings, b \in ChannelStrings,
      c \in ChannelStrings }

\* Channel values: the ends of 0..255, a one-digit value, values with
\* letters as digits.
ChannelValues == { 0, 10, 127, 251, 255 }

RGBInputs == ChannelValues \X ChannelValues \X ChannelValues

\* A hex string read from the store, or an RGB tuple at hand.
InitHex ==
  /\ NotHexIdle
  /\ \/ /\ hx_given_hex \in HexInputs
        /\ hx_hex = hx_given_hex
        /\ hx_given_rgb = << >>
        /\ hx_rgb = << >>
        /\ hx_pc = "hex"
     \/ /\ hx_given_rgb \in RGBInputs
        /\ hx_rgb = hx_given_rgb
        /\ hx_given_hex = ""
        /\ hx_hex = ""
        /\ hx_pc = "rgb"

\* hex_to_rgb called on the hex string at hand.
HexToRgb ==
  /\ hx_pc = "hex"
  /\ hx_rgb' = hex_to_rgb(hx_hex)
  /\ hx_pc' = "rgb"
  /\ UNCHANGED << hx_given_hex, hx_given_rgb, hx_hex, notHex >>

\* rgb_to_hex called on the RGB tuple at hand.
RgbToHex ==
  /\ hx_pc = "rgb"
  /\ hx_hex' = rgb_to_hex(hx_rgb)
  /\ hx_pc' = "hex"
  /\ UNCHANGED << hx_given_hex, hx_given_rgb, hx_rgb, notHex >>

NextHex == HexToRgb \/ RgbToHex

SpecHex == InitHex /\ [][NextHex]_vars

\* ----------------------------------------------- palette store (palettes.py)

\* The parts of the program other than the palette store are at rest.
NotStoreIdle ==
  EngineIdle /\ WorkerIdle /\ BatchIdle /\ HexIdle /\ SessionsIdle

\* Names of source palettes.
SourceNames == { "Default", "S" }

\* Lists of hex colour strings: one in upper case, one in lower case.
ColorLists == { << "#FBFBFB" >>, << "#b23ced", "#000000" >> }

\* The dicts with keys among K and values in V.
DictsOver(K, V) == UNION { [ D -> V ] : D \in SUBSET K }

\* The JSON objects that hold "source_palettes" in SPs or not at all, and
\* "palette_groups" in PGs or not at all.
ObjectsOf(SPs, PGs) ==
  { [ source_palettes |-> sp, palette_groups |-> pg ] : sp \in SPs, pg \in PGs }
    \cup { [ source_palettes |-> sp ] : sp \in SPs }
    \cup { [ palette_groups |-> pg ] : pg \in PGs }
    \cup { EmptyDict }

\* custom_palettes.json: missing, not JSON, or a JSON object.
Stores ==
  { [ kind |-> "missing" ], [ kind |-> "corrupt" ] }
    \cup { [ kind |-> "object", data |-> d ] :
             d \in ObjectsOf(DictsOver(SourceNames, ColorLists),
                             DictsOver(GroupNames,
                                       DictsOver(PaletteNames, ColorLists))) }

\* The JSON number 1 where a mapping is expected: a value that is no dict.
\* (A marker no name of a palette or group is equal to; a dict is a
\* function from names.)
JsonNumber == [ json |-> << >> ]

\* isinstance(v, dict), for the values a document or the store holds.
IsMapping(v) == v # JsonNumber

\* The strings passed to import_palettes_json: text that is not JSON, the
\* JSON texts [] and 1, and JSON objects whose source_palettes and
\* palette_groups are mappings or the number 1.
ImportDocs ==
  { [ kind |-> "notjson" ], [ kind |-> "list" ], [ kind |-> "number" ] }
    \cup { [ kind |-> "object", data |-> d ] :
             d \in ObjectsOf(DictsOver({ "S" }, ColorLists) \cup { JsonNumber },
                             DictsOver({ "G1" },
                                       DictsOver(PaletteNames,
                                                 { << "#b23ced", "#000000" >> }))
                               \cup { JsonNumber }) }

\* A default that holds a group already.
get_default_data_group ==
  [ source_palettes |-> EmptyDict,
    palette_groups  |-> [ g \in { "G2" } |-> EmptyDict ] ]

\* get_default_data
get_default_data ==
  [ source_palettes |-> EmptyDict, palette_groups |-> EmptyDict ]

\* load_custom_data: the object of the file with the keys it lacks added
\* as empty dicts; the default when the file is missing or not JSON.
load_custom_data(file) ==
  IF file.kind = "object"
    THEN LET d1 == IF "source_palettes" \in DOMAIN file.data
                     THEN file.data
                     ELSE DictSet(file.data, "source_palettes", EmptyDict)
         IN  IF "palette_groups" \in DOMAIN d1
               THEN d1
               ELSE DictSet(d1, "palette_groups", EmptyDict)
    ELSE get_default_data

\* save_custom_data
save_custom_data(data) == [ kind |-> "object", data |-> data ]

\* d.update(e)
DictUpdate(d, e) ==
  [ k \in DOMAIN d \cup DOMAIN e |-> IF k \in DOMAIN e THEN e[k] ELSE d[k] ]

\* An operation that raised: an assignment into, or a membership test on, a
\* value of the store that is no dict raises TypeError before anything is
\* saved.
Raises(file) == [ file |-> file, ret |-> "raised" ]

\* add_source_palette
add_source_palette(file, name, colors) ==
  LET data == load_custom_data(file)
  IN  IF ~ IsMapping(data["source_palettes"])
        THEN Raises(file)
        ELSE [ file |-> save_custom_data(
                          [ data EXCEPT !["source_palettes"] =
                              DictSet(@, name, colors) ]),
               ret  |-> "True" ]

\* add_palette_to_group
add_palette_to_group(file, group_name, palette_name, colors) ==
  LET data == load_custom_data(file)
      pg   == data["palette_groups"]
      grp  == IF group_name \in DOMAIN pg THEN pg[group_name] ELSE EmptyDict
  IN  IF ~ IsMapping(pg)
        THEN Raises(file)
        ELSE [ file |-> save_custom_data(
                          [ data EXCEPT !["palette_groups"] =
                              DictSet(pg, group_name,
                                      DictSet(grp, palette_name, colors)) ]),
               ret  |-> "True" ]

\* update_palette_in_group
update_palette_in_group(file, group_name, palette_name, colors) ==
  LET data == load_custom_data(file)
      pg   == data["palette_groups"]
  IN  IF ~ IsMapping(pg)
        THEN Raises(file)
      ELSE IF group_name \in DOMAIN pg /\ palette_name \in DOMAIN pg[group_name]
        THEN [ file |-> save_custom_data(
                          [ data EXCEPT !["palette_groups"] =
                              DictSet(pg, group_name,
                                      DictSet(pg[group_name], palette_name,
                                              colors)) ]),
               ret  |-> "True" ]
        ELSE [ file |-> file, ret |-> "False" ]

\* copy_palette_to_group; new_name "" stands for None, and for the empty
\* string, which "new_name or palette_name" takes for None.
copy_palette_to_group(file, source_group, palette_name, target_group, new_name) ==
  LET data == load_custom_data(file)
      pg   == data["palette_groups"]
  IN  IF ~ IsMapping(pg)
        THEN Raises(file)
      ELSE IF source_group \in DOMAIN pg /\ palette_name \in DOMAIN pg[source_group]
        THEN LET colors      == pg[source_group][palette_name]
                 target_name == IF new_name = "" THEN palette_name ELSE new_name
                 tgt         == IF target_group \in DOMAIN pg
                                  THEN pg[target_group]
                                  ELSE EmptyDict
             IN  [ file |-> save_custom_data(
                              [ data EXCEPT !["palette_groups"] =
                                  DictSet(pg, target_group,
                                          DictSet(tgt, target_name, colors)) ]),
                   ret  |-> "True" ]
        ELSE [ file |-> file, ret |-> "False" ]

\* d.pop(key) followed by d[new_key] = the popped value.
DictRename(d, key, new_key) ==
  [ k \in (DOMAIN d \ { key }) \cup { new_key } |->
      IF k = new_key THEN d[key] ELSE d[k] ]

\* add_palette_group
add_palette_group(file, group_name) ==
  LET data == load_custom_data(file)
      pg   == data["palette_groups"]
  IN  IF ~ IsMapping(pg)
        THEN Raises(file)
      ELSE IF group_name \notin DOMAIN pg
        THEN [ file |-> save_custom_data(
                          [ data EXCEPT !["palette_groups"] =
                              DictSet(pg, group_name, EmptyDict) ]),
               ret  |-> "True" ]
        ELSE [ file |-> file, ret |-> "False" ]

\* rename_palette_group
rename_palette_group(file, old_name, new_name) ==
  LET data == load_custom_data(file)
      pg   == data["palette_groups"]
  IN  IF ~ IsMapping(pg)
        THEN Raises(file)
      ELSE IF old_name \in DOMAIN pg /\ new_name \notin DOMAIN pg
        THEN [ file |-> save_custom_data(
                          [ data EXCEPT !["palette_groups"] =
                              DictRename(pg, old_name, new_name) ]),
               ret  |-> "True" ]
        ELSE [ file |-> file, ret |-> "False" ]

\* rename_palette_in_group
rename_palette_in_group(file, group_name, old_name, new_name) ==
  LET data == load_custom_data(file)
      pg   == data["palette_groups"]
  IN  IF ~ IsMapping(pg)
        THEN Raises(file)
      ELSE IF /\ group_name \in DOMAIN pg
              /\ old_name \in DOMAIN pg[group_name]
              /\ new_name \notin DOMAIN pg[group_name]
        THEN [ file |-> save_custom_data(
                          [ data EXCEPT !["palette_groups"] =
                              DictSet(pg, group_name,
                                      DictRename(pg[group_name], old_name,
                                                 new_name)) ]),
               ret  |-> "True" ]
        ELSE [ file |-> file, ret |-> "False" ]

\* A merge of the groups that replaces the palettes of a group of the same
\* name instead of updating them.
merge_groups_replace(current, imported) == DictUpdate(current, imported)

\* import_palettes_json, merge of the groups: each group of the import is
\* created when the store lacks it and then updated with the import's
\* palettes; an iteration touches the group it is for and no other.
merge_groups(current, imported) ==
  [ g \in DOMAIN current \cup DOMAIN imported |->
      IF g \in DOMAIN imported
        THEN DictUpdate(IF g \in DOMAIN current THEN current[g] ELSE EmptyDict,
                        imported[g])
        ELSE current[g] ]

\* import_palettes_json, merge=True, for a JSON object.  The update of
\* source_palettes raises when the store's value has no update method or
\* the import's is no mapping; the loop over the import's groups raises when
\* the import's value has no items method, or on its first membership test
\* when the store's value is no dict.  Nothing is saved then.
import_merge(file, imported_data) ==
  LET current_data == load_custom_data(file)
      has_sp == "source_palettes" \in DOMAIN imported_data
      has_pg == "palette_groups" \in DOMAIN imported_data
      d1 == IF has_sp
              THEN [ current_data EXCEPT !["source_palettes"] =
                       DictUpdate(@, imported_data["source_palettes"]) ]
              ELSE current_data
      d2 == IF has_pg
              THEN [ d1 EXCEPT !["palette_groups"] =
                       merge_groups(@, imported_data["palette_groups"]) ]
              ELSE d1
  IN  IF has_sp /\ ( ~ IsMapping(current_data["source_palettes"])
                     \/ ~ IsMapping(imported_data["source_palettes"]) )
        THEN Raises(file)
      ELSE IF has_pg /\ ( ~ IsMapping(imported_data["palette_groups"])
                          \/ ( imported_data["palette_groups"] # EmptyDict
                               /\ ~ IsMapping(current_data["palette_groups"]) ) )
        THEN Raises(file)
      ELSE [ file |-> save_custom_data(d2), ret |-> "True" ]

\* import_palettes_json, merge=False, for a JSON object: the values of the
\* import are saved as they are; nothing is saved when the object has
\* neither key.
import_replace(file, imported_data) ==
  IF "source_palettes" \in DOMAIN imported_data
       \/ "palette_groups" \in DOMAIN imported_data
    THEN LET n1 == IF "source_palettes" \in DOMAIN imported_data
                     THEN [ get_default_data EXCEPT !["source_palettes"] =
                              imported_data["source_palettes"] ]
                     ELSE get_default_data
             n2 == IF "palette_groups" \in DOMAIN imported_data
                     THEN [ n1 EXCEPT !["palette_groups"] =
                              imported_data["palette_groups"] ]
                     ELSE n1
         IN  [ file |-> save_custom_data(n2), ret |-> "True" ]
    ELSE [ file |-> file, ret |-> "True" ]

\* import_palettes_json.  Text that is not JSON: json.loads raises
\* JSONDecodeError, caught, False.  The JSON text 1: "source_palettes" in 1
\* raises TypeError, which is not caught (the except clause names
\* JSONDecodeError and KeyError).  The JSON text []: both tests are false,
\* so the merge saves the loaded store and the replacement nothing.
import_palettes_json(file, doc, merge) ==
  CASE doc.kind = "notjson" -> [ file |-> file, ret |-> "False" ]
    [] doc.kind = "number"  -> Raises(file)
    [] doc.kind = "list"    ->
         [ file |-> IF merge THEN save_custom_data(load_custom_data(file))
                             ELSE file,
           ret  |-> "True" ]
    [] doc.kind = "object"  ->
         IF merge THEN import_merge(file, doc.data)
                  ELSE import_replace(file, doc.data)

InitStore ==
  /\ NotStoreIdle
  /\ s_file \in Stores
  /\ s_before = s_file
  /\ s_op = ""
  /\ s_args = << >>
  /\ s_ret = ""

\* The operation op, called with args on the store, returned r.
Called(op, args, r) ==
  /\ s_op = ""
  /\ s_op' = op
  /\ s_args' = args
  /\ s_before' = s_file
  /\ s_file' = r.file
  /\ s_ret' = r.ret
  /\ UNCHANGED notStore

AddSourcePalette ==
  \E name \in SourceNames, colors \in ColorLists :
    Called("add_source_palette", [ name |-> name, colors |-> colors ],
           add_source_palette(s_file, name, colors))

AddPaletteToGroup ==
  \E g \in GroupNames, p \in PaletteNames, colors \in ColorLists :
    Called("add_palette_to_group",
           [ group_name |-> g, palette_name |-> p, colors |-> colors ],
           add_palette_to_group(s_file, g, p, colors))

UpdatePaletteInGroup ==
  \E g \in GroupNames, p \in PaletteNames, colors \in ColorLists :
    Called("update_palette_in_group",
           [ group_name |-> g, palette_name |-> p, colors |-> colors ],
           update_palette_in_group(s_file, g, p, colors))

CopyPaletteToGroup ==
  \E sg \in GroupNames, p \in PaletteNames, tg \in GroupNames,
     new_name \in { "" } \cup PaletteNames :
    Called("copy_palette_to_group",
           [ source_group |-> sg, palette_name |-> p, target_group |-> tg,
             new_name |-> new_name ],
           copy_palette_to_group(s_file, sg, p, tg, new_name))

ImportPalettesJson ==
  \E doc \in ImportDocs, merge \in BOOLEAN :
    Called("import_palettes_json", [ doc |-> doc, merge |-> merge ],
           import_palettes_json(s_file, doc, merge))

AddPaletteGroup ==
  \E g \in GroupNames :
    Called("add_palette_group", [ group_name |-> g ],
           add_palette_group(s_file, g))

RenamePaletteGroup ==
  \E old_name \in GroupNames, new_name \in GroupNames :
    Called("rename_palette_group",
           [ old_name |-> old_name, new_name |-> new_name ],
           rename_palette_group(s_file, old_name, new_name))

RenamePaletteInGroup ==
  \E g \in GroupNames, old_name \in PaletteNames, new_name \in PaletteNames :
    Called("rename_palette_in_group",
           [ group_name |-> g, old_name |-> old_name, new_name |-> new_name ],
           rename_palette_in_group(s_file, g, old_name, new_name))

\* The caller goes on after an operation that returned.
StoreReturn ==
  /\ s_op # ""
  /\ s_ret # "raised"
  /\ s_op' = ""
  /\ s_args' = << >>
  /\ s_before' = s_file
  /\ s_ret' = ""
  /\ UNCHANGED << s_file, notStore >>

NextStore ==
  \/ AddSourcePalette
  \/ AddPaletteToGroup
  \/ UpdatePaletteInGroup
  \/ CopyPaletteToGroup
  \/ ImportPalettesJson
  \/ AddPaletteGroup
  \/ RenamePaletteGroup
  \/ RenamePaletteInGroup
  \/ StoreReturn

SpecStore == InitStore /\ [][NextStore]_vars

\* ------------------------------- store operations of concurrent web sessions

\* The web sessions: each runs the script in a thread of its own, and the
\* store functions take no lock.
Sessions == { "s1", "s2" }

\* custom_palettes.json when the sessions start.
SessionStores ==
  { [ kind |-> "missing" ], [ kind |-> "corrupt" ] }
    \cup { [ kind |-> "object", data |-> d ] :
             d \in ObjectsOf(DictsOver({ "S" }, { << "#FBFBFB" >> }),
                             DictsOver({ "G1" },
                                       DictsOver({ "c" },
                                                 { << "#FBFBFB" >> }))) }

\* The calls a session makes.
SessionOps ==
  { [ op |-> "add_source_palette", name |-> n,
      colors |-> << "#b23ced", "#000000" >> ] : n \in SourceNames }
    \cup { [ op |-> "add_palette_to_group", group_name |-> "G1",
             palette_name |-> p, colors |-> << "#b23ced", "#000000" >> ] :
             p \in PaletteNames }

\* The call c on the file as the session read it: what it saves and returns.
SessionCall(c, file) ==
  IF c.op = "add_source_palette"
    THEN add_source_palette(file, c.name, c.colors)
    ELSE add_palette_to_group(file, c.group_name, c.palette_name, c.colors)

\* An empty file: it exists and json.load raises JSONDecodeError on it.
Truncated == [ kind |-> "corrupt" ]

InitSessions ==
  /\ EngineIdle /\ WorkerIdle /\ BatchIdle /\ HexIdle
  /\ s_file \in SessionStores
  /\ s_before = [ kind |-> "missing" ]
  /\ s_op = "off"
  /\ s_args = << >>
  /\ s_ret = ""
  /\ sessions = [ i \in Sessions |->
                   [ pc |-> "idle", call |-> << >>, data |-> << >>,
                     clean |-> TRUE ] ]

\* Session i calls a store function: load_custom_data reads the file and the
\* function changes the dict it got, which no other session sees.
SessionLoad(i) ==
  /\ sessions[i].pc = "idle"
  /\ \E c \in SessionOps :
       \E r \in { SessionCall(c, s_file) } :
         sessions' = [ sessions EXCEPT ![i] =
                         [ pc    |-> IF r.ret = "raised" THEN "raised"
                                                        ELSE "loaded",
                           call  |-> c,
                           data  |-> r.file,
                           clean |-> TRUE ] ]
  /\ UNCHANGED << s_file, notSessions >>

\* save_custom_data, open(PALETTES_FILE, 'w'): the file is cut to length 0.
SessionOpen(i) ==
  /\ sessions[i].pc = "loaded"
  /\ s_file' = Truncated
  /\ sessions' = [ sessions EXCEPT ![i].pc = "opened" ]
  /\ UNCHANGED notSessions

\* save_custom_data, json.dump and the end of the with block: the text is
\* written from offset 0 and the function returns True.  When the other
\* session wrote after this one opened the file, the text goes over the other
\* one's: the file holds this session's text alone when that is no shorter,
\* and otherwise this text followed by the rest of the other, which is no
\* JSON.
SessionDump(i) ==
  /\ sessions[i].pc = "opened"
  /\ s_file' \in IF sessions[i].clean
                   THEN { sessions[i].data }
                   ELSE { sessions[i].data, [ kind |-> "corrupt" ] }
  /\ sessions' = [ j \in Sessions |->
                    IF j = i
                      THEN [ sessions[j] EXCEPT !.pc = "done" ]
                      ELSE IF sessions[j].pc = "opened"
                        THEN [ sessions[j] EXCEPT !.clean = FALSE ]
                        ELSE sessions[j] ]
  /\ UNCHANGED notSessions

NextSessions ==
  \E i \in Sessions : SessionLoad(i) \/ SessionOpen(i) \/ SessionDump(i)

SpecSessions == InitSessions /\ [][NextSessions]_vars

\* ------------------------------------------------- vocabulary of the claims

\* The palettes and the image of the first call.
SrcP == given.source_palette
TgtP == given.target_palette
InW == given.image.width
InH == given.image.height
InPos == Positions(InW, InH)

\* The pixel at p of the RGBA-normalised input: a missing alpha is opaque.
InputPixel(p) ==
  LET q == given.image.px[p]
  IN  IF given.image.mode = "RGBA" THEN q ELSE <<q[1], q[2], q[3], 255>>

RGBOf(q) == <<q[1], q[2], q[3]>>

\* The indices at which the two palettes are paired.
Paired(a, b) == 1 .. Min(Len(a), Len(b))

\* The paired indices of a at which colour c stands.
IndicesOf(a, b, c) == { i \in Paired(a, b) : a[i] = c }

Last(S) == CHOOSE i \in S : \A j \in S : j <= i

\* The first call has returned an image.
Returned == pc \in { "recolor", "emissive" } /\ output_image \in 1 .. Len(heap)

\* The image the first call returned.
Out == heap[output_image]

\* C1: after recolor_image, at every position of the normalised input, a
\* pixel whose RGB is a key of the ColorMap has the mapped target's RGB and the
\* input's alpha, and any other pixel equals the input pixel in all channels.
C1_RecolorPixelRule ==
  pc = "recolor" =>
    /\ output_image \in 1 .. Len(heap)
    /\ LET cm == color_map(SrcP, TgtP)
       IN  \A p \in InPos :
             /\ p \in DOMAIN Out.px
             /\ LET q == InputPixel(p)
                IN  IF RGBOf(q) \in DOMAIN cm
                      THEN Out.px[p] = <<cm[RGBOf(q)][1], cm[RGBOf(q)][2],
                                         cm[RGBOf(q)][3], q[4]>>
                      ELSE Out.px[p] = q

\* recolor_image has returned an image holding a substituted pixel (its colour
\* changed) and a passed-through one.
C1_Witness ==
  /\ pc = "recolor"
  /\ output_image # 0
  /\ \E p1 \in InPos, p2 \in InPos :
       /\ IndicesOf(SrcP, TgtP, RGBOf(InputPixel(p1))) # {}
       /\ Out.px[p1] # InputPixel(p1)
       /\ IndicesOf(SrcP, TgtP, RGBOf(InputPixel(p2))) = {}
       /\ Out.px[p2] = InputPixel(p2)

\* C2: after create_emissive_texture, at every position, a pixel whose RGB is
\* a key of the ColorMap has the mapped target's RGB and the input's alpha, and
\* any other pixel is (0,0,0,0) whatever the input pixel was.
C2_EmissivePixelRule ==
  pc = "emissive" =>
    /\ output_image \in 1 .. Len(heap)
    /\ LET cm == color_map(SrcP, TgtP)
       IN  \A p \in InPos :
             /\ p \in DOMAIN Out.px
             /\ LET q == InputPixel(p)
                IN  IF RGBOf(q) \in DOMAIN cm
                      THEN Out.px[p] = <<cm[RGBOf(q)][1], cm[RGBOf(q)][2],
                                         cm[RGBOf(q)][3], q[4]>>
                      ELSE Out.px[p] = <<0, 0, 0, 0>>

\* create_emissive_texture has returned an image in which an unmatched,
\* visible, non-black input pixel became (0,0,0,0) beside a matched one.
C2_Witness ==
  /\ pc = "emissive"
  /\ output_image # 0
  /\ \E p1 \in InPos, p2 \in InPos :
       /\ IndicesOf(SrcP, TgtP, RGBOf(InputPixel(p1))) # {}
       /\ Out.px[p1][4] = InputPixel(p1)[4]
       /\ IndicesOf(SrcP, TgtP, RGBOf(InputPixel(p2))) = {}
       /\ InputPixel(p2)[4] # 0
       /\ RGBOf(InputPixel(p2)) # <<0, 0, 0>>
       /\ Out.px[p2] = <<0, 0, 0, 0>>

\* C3: in both operations a matched pixel keeps the input's alpha and takes
\* the mapped target's RGB; recolor_image changes no pixel's alpha at all.
C3_AlphaPreserved ==
  pc \in { "recolor", "emissive" } =>
    /\ output_image \in 1 .. Len(heap)
    /\ \A p \in InPos :
         /\ p \in DOMAIN Out.px
         /\ LET q == InputPixel(p)
                S == IndicesOf(SrcP, TgtP, RGBOf(q))
            IN  /\ S # {} =>
                      /\ Out.px[p][4] = q[4]
                      /\ \E i \in S : RGBOf(Out.px[p]) = TgtP[i]
                /\ pc = "recolor" => Out.px[p][4] = q[4]

\* create_emissive_texture has substituted the colour of a half-transparent
\* pixel and kept its alpha.
C3_Witness ==
  /\ pc = "emissive"
  /\ output_image # 0
  /\ \E p \in InPos :
       /\ IndicesOf(SrcP, TgtP, RGBOf(InputPixel(p))) # {}
       /\ InputPixel(p)[4] = 128
       /\ Out.px[p][4] = 128
       /\ RGBOf(Out.px[p]) # RGBOf(InputPixel(p))

\* C4: the image either operation returns has the input's width and height
\* and holds a pixel at exactly the positions of the input, also when the
\* width or the height is 0.
C4_DimensionsPreserved ==
  pc \in { "recolor", "emissive" } =>
    /\ output_image \in 1 .. Len(heap)
    /\ Out.width = InW
    /\ Out.height = InH
    /\ DOMAIN Out.px = InPos
    /\ \A p \in InPos : Len(Out.px[p]) = 4

\* recolor_image has returned for an image of width 0 and non-zero height.
C4_Witness ==
  /\ pc = "recolor"
  /\ output_image # 0
  /\ InW = 0
  /\ InH > 0
  /\ Out.width = 0
  /\ Out.height = InH

\* The colours of a source palette that stand only at indices beyond the
\* shorter length, by index.
Beyond(a, b) == { i \in DOMAIN a : i > Min(Len(a), Len(b)) }

\* The original statement of C5: a pixel whose colour stands at a source index
\* at or beyond the shorter length is passed through by recolor_image and is
\* (0,0,0,0) in create_emissive_texture.
C5_Original ==
  Returned =>
    \A i \in Beyond(SrcP, TgtP) : \A p \in InPos :
      RGBOf(InputPixel(p)) = SrcP[i] =>
        Out.px[p] = IF pc = "recolor" THEN InputPixel(p) ELSE <<0, 0, 0, 0>>

\* C5 (amended): only the first min(len(source), len(target)) positions are
\* paired; a pixel whose colour stands at a source index at or beyond the
\* shorter length, and at no paired index, is passed through by recolor_image
\* and is (0,0,0,0) in create_emissive_texture.
C5_Truncation ==
  pc \in { "recolor", "emissive" } =>
    /\ output_image \in 1 .. Len(heap)
    /\ \A i \in Beyond(SrcP, TgtP) : \A p \in InPos :
         ( /\ RGBOf(InputPixel(p)) = SrcP[i]
           /\ IndicesOf(SrcP, TgtP, SrcP[i]) = {} ) =>
           /\ p \in DOMAIN Out.px
           /\ Out.px[p] =
                IF pc = "recolor" THEN InputPixel(p) ELSE <<0, 0, 0, 0>>

\* recolor_image has passed through a pixel of the second source colour, the
\* target palette holding one colour only, beside a substituted pixel.
C5_Witness ==
  /\ pc = "recolor"
  /\ output_image # 0
  /\ Len(SrcP) = 2
  /\ Len(TgtP) = 1
  /\ SrcP[2] # SrcP[1]
  /\ \E p1 \in InPos, p2 \in InPos :
       /\ RGBOf(InputPixel(p1)) = SrcP[2]
       /\ Out.px[p1] = InputPixel(p1)
       /\ RGBOf(InputPixel(p2)) = SrcP[1]
       /\ Out.px[p2] # InputPixel(p2)

\* C6: in both operations a pixel whose colour stands at several paired
\* indices of the source palette takes the target colour paired with the last
\* of them.
C6_LastPairingWins ==
  pc \in { "recolor", "emissive" } =>
    /\ output_image \in 1 .. Len(heap)
    /\ \A p \in InPos :
         LET S == IndicesOf(SrcP, TgtP, RGBOf(InputPixel(p)))
         IN  S # {} =>
               /\ p \in DOMAIN Out.px
               /\ RGBOf(Out.px[p]) = TgtP[Last(S)]

\* recolor_image with source [C, C] and target [T1, T2], T1 # T2, has mapped
\* a pixel of colour C to T2.
C6_Witness ==
  /\ pc = "recolor"
  /\ output_image # 0
  /\ Len(SrcP) = 2
  /\ Len(TgtP) = 2
  /\ SrcP[1] = SrcP[2]
  /\ TgtP[1] # TgtP[2]
  /\ \E p \in InPos :
       /\ RGBOf(InputPixel(p)) = SrcP[1]
       /\ RGBOf(Out.px[p]) = TgtP[2]

\* C7: recolor_image(image, P, P) is pixel-identical to the RGBA-normalised
\* input, for every palette P, repeated colours included.
C7_IdentityPalette ==
  (pc = "recolor" /\ SrcP = TgtP) =>
    /\ output_image \in 1 .. Len(heap)
    /\ Out.width = InW
    /\ Out.height = InH
    /\ Out.px = [ p \in InPos |-> InputPixel(p) ]

\* recolor_image(image, [C, C], [C, C]) has returned for an image without
\* alpha holding a pixel of colour C and a pixel of another colour.
C7_Witness ==
  /\ pc = "recolor"
  /\ output_image # 0
  /\ SrcP = TgtP
  /\ Len(SrcP) = 2
  /\ SrcP[1] = SrcP[2]
  /\ given.image.mode = "RGB"
  /\ \E p1 \in InPos, p2 \in InPos :
       /\ RGBOf(InputPixel(p1)) = SrcP[1]
       /\ RGBOf(InputPixel(p2)) # SrcP[1]
  /\ Out.px = [ p \in InPos |-> InputPixel(p) ]

\* The two palettes have no colour in common.
Disjoint(a, b) == \A i \in DOMAIN a, j \in DOMAIN b : a[i] # b[j]

\* No colour of b is paired with two different colours of a.
PairedOnce(a, b) ==
  \A i \in Paired(a, b), j \in Paired(a, b) : b[i] = b[j] => a[i] = a[j]

\* The original statement of C8: with palettes that have no colour in common,
\* recolor(recolor(image, A, B), B, A) gives every pixel matched in the first
\* call its original colour and alpha back.
C8_Original ==
  (pc = "back" /\ restored # 0 /\ Disjoint(SrcP, TgtP)) =>
    \A p \in InPos :
      IndicesOf(SrcP, TgtP, RGBOf(InputPixel(p))) # {} =>
        heap[restored].px[p] = InputPixel(p)

\* C8 (amended): with palettes A and B that have no colour in common and in
\* which no colour of B is paired with two different colours of A,
\* recolor(recolor(image, A, B), B, A) gives every pixel matched in the first
\* call its original colour and alpha back.
C8_RoundTrip ==
  (pc = "back" /\ Disjoint(SrcP, TgtP) /\ PairedOnce(SrcP, TgtP)) =>
    /\ restored \in 1 .. Len(heap)
    /\ \A p \in InPos :
         IndicesOf(SrcP, TgtP, RGBOf(InputPixel(p))) # {} =>
           /\ p \in DOMAIN heap[restored].px
           /\ heap[restored].px[p] = InputPixel(p)

\* The second call has given a half-transparent pixel, which the first call
\* had substituted, its colour back.
C8_Witness ==
  /\ pc = "back"
  /\ restored # 0
  /\ output_image # 0
  /\ Disjoint(SrcP, TgtP)
  /\ PairedOnce(SrcP, TgtP)
  /\ \E p \in InPos :
       /\ IndicesOf(SrcP, TgtP, RGBOf(InputPixel(p))) # {}
       /\ InputPixel(p)[4] = 128
       /\ heap[output_image].px[p] # InputPixel(p)
       /\ heap[restored].px[p] = InputPixel(p)

\* C9: a call changes no image object that existed before it, the caller's
\* input included, leaves both palette lists as they were and returns a new
\* image object; a later write to the returned image changes that image and
\* not the input.
C9_InputsNotModified ==
  [][ /\ heap'[image'] = given'.image
      /\ pc' # "back" =>
           /\ source_palette' = given'.source_palette
           /\ target_palette' = given'.target_palette
      /\ (pc = "ready" \/ pc' = "back") =>
           /\ Len(heap') >= Len(heap)
           /\ \A r \in 1 .. Len(heap) : heap'[r] = heap[r]
           /\ source_palette' = source_palette
           /\ target_palette' = target_palette
           /\ pc' # "back" => output_image' \notin 1 .. Len(heap)
           /\ pc' = "back" => restored' \notin 1 .. Len(heap)
      /\ pc' = "written" =>
           /\ heap'[output_image] # heap[output_image]
           /\ \A r \in 1 .. Len(heap) :
                r # output_image => heap'[r] = heap[r]
    ]_vars

\* The caller has written to the image recolor_image returned for an input
\* with pixels, and the input is as it was.
C9_Witness ==
  /\ pc = "written"
  /\ called = "recolor"
  /\ InPos # {}
  /\ heap[output_image] # given.image
  /\ heap[image] = given.image

\* C10: no call raises, whatever the palettes; with an empty source or target
\* palette the ColorMap has no entry, recolor_image returns a copy of the
\* (normalised) input and create_emissive_texture an image of (0,0,0,0).
C10_NeverRaises ==
  pc # "ready" =>
    /\ ~raised
    /\ output_image \in 1 .. Len(heap)
    /\ pc = "back" => restored \in 1 .. Len(heap)
    /\ (pc \in { "recolor", "emissive" }
          /\ (Len(SrcP) = 0 \/ Len(TgtP) = 0)) =>
         /\ DOMAIN color_map(SrcP, TgtP) = {}
         /\ output_image # image
         /\ Out.width = InW
         /\ Out.height = InH
         /\ Out.px = IF pc = "recolor"
                       THEN [ p \in InPos |-> InputPixel(p) ]
                       ELSE [ p \in InPos |-> <<0, 0, 0, 0>> ]

\* create_emissive_texture has returned an image of (0,0,0,0) for a two-pixel
\* image, a source palette of two colours and an empty target palette.
C10_Witness ==
  /\ pc = "emissive"
  /\ ~raised
  /\ output_image # 0
  /\ Len(SrcP) = 2
  /\ Len(TgtP) = 0
  /\ Cardinality(InPos) = 2
  /\ \A p \in InPos : Out.px[p] = <<0, 0, 0, 0>>

\* --------------------------------------------------------------- C11 .. C13

\* The later call has returned an image.
SecondOut == heap[second]

\* C11: a later call of the same operation with the first call's image and
\* palettes returns an image pixel-identical to what the first call returned,
\* whatever calls and writes came between the two.
C11_Deterministic ==
  (pc = "second" /\ second_op = called) =>
    /\ ~raised
    /\ second \in 1 .. Len(heap)
    /\ heap[image] = given.image
    /\ source_palette = given.source_palette
    /\ target_palette = given.target_palette
    /\ SecondOut.width = first_out.width
    /\ SecondOut.height = first_out.height
    /\ SecondOut.px = first_out.px

\* create_emissive_texture has returned a second time, after a write to its
\* first result, for an image with an unmatched pixel, and the two results
\* are equal although the first result has been written to since.
C11_Witness ==
  /\ pc = "second"
  /\ called = "emissive"
  /\ second_op = "emissive"
  /\ second # 0
  /\ output_image # 0
  /\ heap[output_image] # first_out
  /\ \E p \in InPos : IndicesOf(SrcP, TgtP, RGBOf(InputPixel(p))) = {}
  /\ \E p \in InPos : IndicesOf(SrcP, TgtP, RGBOf(InputPixel(p))) # {}
  /\ SecondOut.px = first_out.px

\* C12: for the same image and palettes the two operations agree at every
\* matched position, and their results are pixel-identical when every pixel
\* is matched.
C12_EmissiveAgreesWithRecolor ==
  (pc = "second" /\ second_op # called) =>
    /\ second \in 1 .. Len(heap)
    /\ DOMAIN SecondOut.px = DOMAIN first_out.px
    /\ \A p \in InPos :
         IndicesOf(SrcP, TgtP, RGBOf(InputPixel(p))) # {} =>
           /\ p \in DOMAIN SecondOut.px
           /\ p \in DOMAIN first_out.px
           /\ SecondOut.px[p] = first_out.px[p]
    /\ (\A p \in InPos : IndicesOf(SrcP, TgtP, RGBOf(InputPixel(p))) # {}) =>
         /\ SecondOut.width = first_out.width
         /\ SecondOut.height = first_out.height
         /\ SecondOut.px = first_out.px

\* recolor_image, then create_emissive_texture, have returned for a two-pixel
\* image whose pixels are both matched and substituted by another colour.
C12_Witness ==
  /\ pc = "second"
  /\ called = "recolor"
  /\ second_op = "emissive"
  /\ second # 0
  /\ Cardinality(InPos) = 2
  /\ \A p \in InPos :
       /\ IndicesOf(SrcP, TgtP, RGBOf(InputPixel(p))) # {}
       /\ first_out.px[p] # InputPixel(p)
  /\ SecondOut.px = first_out.px

\* C13: in the image create_emissive_texture returns, every pixel with a
\* non-zero alpha stands where the input's RGB is a key of the ColorMap, and
\* every position whose input colour is not a key has alpha 0.
C13_OnlyEligibleVisible ==
  pc = "emissive" =>
    /\ output_image \in 1 .. Len(heap)
    /\ \A p \in InPos :
         /\ p \in DOMAIN Out.px
         /\ Out.px[p][4] # 0 =>
              IndicesOf(SrcP, TgtP, RGBOf(InputPixel(p))) # {}
         /\ IndicesOf(SrcP, TgtP, RGBOf(InputPixel(p))) = {} =>
              Out.px[p][4] = 0

\* create_emissive_texture has hidden an opaque unmatched pixel and kept a
\* matched one visible.
C13_Witness ==
  /\ pc = "emissive"
  /\ output_image # 0
  /\ \E p1 \in InPos, p2 \in InPos :
       /\ IndicesOf(SrcP, TgtP, RGBOf(InputPixel(p1))) = {}
       /\ InputPixel(p1)[4] = 255
       /\ Out.px[p1][4] = 0
       /\ IndicesOf(SrcP, TgtP, RGBOf(InputPixel(p2))) # {}
       /\ Out.px[p2][4] = 255

\* ---------------------------------------------------------------------- C14

\* The image the row-major scan of the function the workers run returns.
Sequential ==
  LET r == IF w_op = "recolor"
             THEN recolor_image(heap, image, source_palette, target_palette)
             ELSE create_emissive_texture(heap, image, source_palette,
                                          target_palette)
  IN  IF r.ret = 0 THEN NoImage ELSE r.heap[r.ret]

\* C14: whatever the order in which the workers process the positions of
\* their rows, every processed position holds the pixel the row-major scan
\* stores there, and once every position is processed the output is the image
\* the scan returns.
C14_OrderIndependent ==
  w_op # "" =>
    /\ w_out.width = Sequential.width
    /\ w_out.height = Sequential.height
    /\ DOMAIN w_out.px = DOMAIN Sequential.px
    /\ \A p \in DOMAIN w_out.px \ w_todo : w_out.px[p] = Sequential.px[p]
    /\ w_todo = {} => w_out = Sequential

\* Two workers have processed the two rows of an image, one row each, in
\* some order, and recolor_image's scan returns what they produced.
C14_Witness ==
  /\ w_op = "recolor"
  /\ w_todo = {}
  /\ w_pixels.height = 2
  /\ WorkerOf(0) # WorkerOf(1)
  /\ w_out = Sequential
  /\ \E p \in DOMAIN w_out.px : w_out.px[p] # w_pixels.px[p]
  /\ \E p \in DOMAIN w_out.px : w_out.px[p] = w_pixels.px[p]

\* --------------------------------------------------------------- C15 .. C16

\* The (group name, palette name) pairs of the batch.
BatchPairs == { Pairs(b_groups)[k] : k \in DOMAIN Pairs(b_groups) }

\* The files of the batch that hold a PNG image.
GoodFiles == { i \in DOMAIN b_folder : b_folder[i].content = "png" }

\* How many calls of recolor_image for file i and pair pr returned.
Invocations(i, pr) ==
  Cardinality({ k \in DOMAIN b_recolored : b_recolored[k] = << i, pr >> })

\* C15 (as stated): after a batch ran to its end, for each image and each
\* palette of each group recolor was invoked once and the result of that pair
\* is the one held under <basename>_<paletteName>.png: by the output folder
\* of the CLI, by the web result entry of that file and palette name and by
\* the ZIP entry of that name; no result was replaced by another pair's.
C15_Original ==
  /\ b_pc = "done" =>
       \A i \in GoodFiles : \A pr \in BatchPairs :
         LET out == OutputName(stem(b_folder[i].name), pr[2])
         IN  /\ Invocations(i, pr) = 1
             /\ out \in DOMAIN b_generated
             /\ b_generated[out] = ResultOf(i, pr, "recolor")
  /\ b_pc = "web" =>
       \A i \in GoodFiles : \A pr \in BatchPairs :
         LET key == << b_folder[i].name, pr[2] >>
         IN  /\ Invocations(i, pr) = 1
             /\ key \in DOMAIN b_results
             /\ b_results[key] = ResultOf(i, pr, "recolor")
             /\ [ name   |-> OutputName(stem(b_folder[i].name), pr[2]),
                  result |-> ResultOf(i, pr, "recolor") ]
                  \in create_zip_file(b_results)

\* C16 (as stated): when a CLI batch has ended, in whatever way, every file
\* that is no image was reported and every file that holds a PNG image was
\* recolored with every palette of every group.
C16_Original ==
  (b_pc \in { "done", "crashed" } /\ b_next >= 1) =>
    \A i \in DOMAIN b_folder :
      /\ b_folder[i].content = "garbage" => i \in b_errors
      /\ i \in GoodFiles => \A pr \in BatchPairs : Invocations(i, pr) = 1

\* ---------------------------------------------------------------------- C17

\* ch.upper() for one character of a hex string.
UpperChar(ch) ==
  IF \E v \in 10 .. 15 : CharAt(LowerDigits, v) = ch
    THEN CharAt(UpperDigits, CHOOSE v \in 10 .. 15 : CharAt(LowerDigits, v) = ch)
    ELSE ch

\* s.upper()
RECURSIVE upper(_)
upper(s) ==
  IF Len(s) = 0 THEN "" ELSE UpperChar(CharAt(s, 0)) \o upper(SubSeq(s, 2, Len(s)))

\* h without its leading '#', if it has one.
Digits(h) == IF Len(h) > 0 /\ CharAt(h, 0) = "#" THEN SubSeq(h, 2, Len(h)) ELSE h

\* An upper-case "#RRGGBB" string.
IsUpperHex(c) == Len(c) = 7 /\ CharAt(c, 0) = "#" /\ upper(c) = c

\* The source palettes and the palette groups a file, or an imported
\* document, holds.
SourcesIn(x) ==
  IF x.kind = "object" /\ "source_palettes" \in DOMAIN x.data
    THEN x.data["source_palettes"]
    ELSE EmptyDict

GroupsIn(x) ==
  IF x.kind = "object" /\ "palette_groups" \in DOMAIN x.data
    THEN x.data["palette_groups"]
    ELSE EmptyDict

\* Every colour string a file holds.
ColorStrings(x) ==
  LET sp == SourcesIn(x)
      pg == GroupsIn(x)
  IN  UNION { { sp[n][i] : i \in DOMAIN sp[n] } : n \in DOMAIN sp }
        \cup UNION { UNION { { pg[g][p][i] : i \in DOMAIN pg[g][p] } :
                             p \in DOMAIN pg[g] } : g \in DOMAIN pg }

\* C17 (as stated): after add_source_palette, add_palette_to_group,
\* update_palette_in_group, copy_palette_to_group or import_palettes_json
\* returned True on a store that held upper-case "#RRGGBB" strings only,
\* every colour string the store holds is an upper-case "#RRGGBB" string.
C17_Original ==
  ( /\ s_op \in { "add_source_palette", "add_palette_to_group",
                  "update_palette_in_group", "copy_palette_to_group",
                  "import_palettes_json" }
    /\ s_ret = "True"
    /\ \A c \in ColorStrings(s_before) : IsUpperHex(c) )
  => \A c \in ColorStrings(s_file) : IsUpperHex(c)

\* ---------------------------------------------------------------------- C18

\* C18: hex_to_rgb returns the same triple for every six-digit hex string
\* that differs from the one given in letter case or in the leading '#'
\* only; hex_to_rgb(rgb_to_hex(c)) = c for every colour c with channels in
\* 0..255; rgb_to_hex(hex_to_rgb(h)) is h upper-cased with a leading '#'.
C18_HexRoundTrip ==
  /\ (hx_given_hex # "" /\ hx_rgb # << >>) =>
       \A h \in HexInputs :
         upper(Digits(h)) = upper(Digits(hx_given_hex)) => hex_to_rgb(h) = hx_rgb
  /\ (hx_given_rgb # << >>) => hx_rgb = hx_given_rgb
  /\ (hx_given_hex # "" /\ hx_rgb # << >> /\ hx_pc = "hex") =>
       hx_hex = "#" \o upper(Digits(hx_given_hex))

\* A hex string in mixed case without '#' was read as (251, 251, 10) and
\* that was written back as "#FBFB0A".
C18_Witness ==
  /\ hx_given_hex = "fbFB0a"
  /\ hx_rgb = << 251, 251, 10 >>
  /\ hx_hex = "#FBFB0A"
  /\ hx_pc = "hex"

\* --------------------------------------------------------------- C19 .. C20

\* import_palettes_json was called with this value of merge and returned True.
Imported(merge) ==
  /\ s_op = "import_palettes_json"
  /\ s_ret = "True"
  /\ s_args.merge = merge

\* The imported document names source_palettes or palette_groups.
NamesAKey ==
  /\ s_args.doc.kind = "object"
  /\ \/ "source_palettes" \in DOMAIN s_args.doc.data
     \/ "palette_groups" \in DOMAIN s_args.doc.data

C20_MergeKeeps ==
  Imported(TRUE) =>
    LET imp_sp == SourcesIn(s_args.doc)
        imp_pg == GroupsIn(s_args.doc)
        old_sp == SourcesIn(s_before)
        old_pg == GroupsIn(s_before)
        new_sp == SourcesIn(s_file)
        new_pg == GroupsIn(s_file)
    IN  /\ \A n \in DOMAIN imp_sp : n \in DOMAIN new_sp /\ new_sp[n] = imp_sp[n]
        /\ \A g \in DOMAIN imp_pg :
             /\ g \in DOMAIN new_pg
             /\ \A p \in DOMAIN imp_pg[g] :
                  p \in DOMAIN new_pg[g] /\ new_pg[g][p] = imp_pg[g][p]
        /\ \A n \in DOMAIN old_sp \ DOMAIN imp_sp :
             n \in DOMAIN new_sp /\ new_sp[n] = old_sp[n]
        /\ \A g \in DOMAIN old_pg :
             /\ g \in DOMAIN new_pg
             /\ \A p \in DOMAIN old_pg[g] :
                  (g \notin DOMAIN imp_pg \/ p \notin DOMAIN imp_pg[g]) =>
                    p \in DOMAIN new_pg[g] /\ new_pg[g][p] = old_pg[g][p]

\* An import that names palette c of group G1 was merged into a store whose
\* group G1 held c and b_c with other colours, next to a group G2 and a
\* source palette: c has the imported colours, b_c its own.
C20_Witness ==
  /\ Imported(TRUE)
  /\ DOMAIN GroupsIn(s_args.doc) = { "G1" }
  /\ DOMAIN GroupsIn(s_args.doc)["G1"] = { "c" }
  /\ DOMAIN GroupsIn(s_before) = { "G1", "G2" }
  /\ DOMAIN GroupsIn(s_before)["G1"] = { "c", "b_c" }
  /\ GroupsIn(s_before)["G1"]["c"] = << "#FBFBFB" >>
  /\ GroupsIn(s_before)["G1"]["b_c"] = << "#FBFBFB" >>
  /\ DOMAIN SourcesIn(s_before) = { "Default" }
  /\ GroupsIn(s_file)["G1"]["c"] = << "#b23ced", "#000000" >>
  /\ GroupsIn(s_file)["G1"]["b_c"] = << "#FBFBFB" >>
  /\ DOMAIN GroupsIn(s_file) = { "G1", "G2" }
  /\ DOMAIN SourcesIn(s_file) = { "Default" }

\* ---------------------------------------------------------------------- C21

\* A well-formed palette document: a JSON object whose source_palettes and
\* palette_groups, where it has them, are mappings.
WellFormed(doc) ==
  /\ doc.kind = "object"
  /\ "source_palettes" \in DOMAIN doc.data => IsMapping(doc.data["source_palettes"])
  /\ "palette_groups" \in DOMAIN doc.data => IsMapping(doc.data["palette_groups"])

\* The store holds every source palette and every (group, palette) of the
\* document, with the document's colours.
Reflects(file, doc) ==
  LET imp_sp == SourcesIn(doc)
      imp_pg == GroupsIn(doc)
      new_sp == SourcesIn(file)
      new_pg == GroupsIn(file)
  IN  /\ \A n \in DOMAIN imp_sp : n \in DOMAIN new_sp /\ new_sp[n] = imp_sp[n]
      /\ \A g \in DOMAIN imp_pg :
           /\ g \in DOMAIN new_pg
           /\ \A p \in DOMAIN imp_pg[g] :
                p \in DOMAIN new_pg[g] /\ new_pg[g][p] = imp_pg[g][p]

\* C21 (as stated): import_palettes_json, called with a string that is not
\* a well-formed palette document, returns False, does not raise and leaves
\* the persisted store as it was; it returns True only for a well-formed
\* document that the store then reflects.
C21_Original ==
  s_op = "import_palettes_json" =>
    /\ ~ WellFormed(s_args.doc) => (s_ret = "False" /\ s_file = s_before)
    /\ s_ret = "True" => (WellFormed(s_args.doc) /\ Reflects(s_file, s_args.doc))

\* --------------------------------------------------------------- C22 .. C23

\* C22 (as stated): add_palette_group, when the store has no group of that
\* name, returns True, the store then has the group with no palettes, and
\* every other group and every source palette is as it was; when the store
\* has a group of that name, it returns False and the store is as it was.
C22_Original ==
  s_op = "add_palette_group" =>
    LET g      == s_args.group_name
        old_pg == GroupsIn(s_before)
        new_pg == GroupsIn(s_file)
    IN  IF g \notin DOMAIN old_pg
          THEN /\ s_ret = "True"
               /\ DOMAIN new_pg = DOMAIN old_pg \cup { g }
               /\ new_pg[g] = EmptyDict
               /\ \A h \in DOMAIN old_pg : new_pg[h] = old_pg[h]
               /\ SourcesIn(s_file) = SourcesIn(s_before)
          ELSE /\ s_ret = "False"
               /\ s_file = s_before

\* d with key old renamed to new: new holds what old held, old is gone, every
\* other key is as it was.
Renamed(d, e, old, new) ==
  /\ DOMAIN e = (DOMAIN d \ { old }) \cup { new }
  /\ e[new] = d[old]
  /\ \A k \in DOMAIN d \ { old } : e[k] = d[k]

\* C23 (as stated): rename_palette_group, when old_name exists and new_name
\* does not, leaves new_name with the palettes old_name held, old_name gone
\* and every other group as it was; when old_name is missing or new_name
\* exists it returns False and the store is as it was.  The same for
\* rename_palette_in_group and the palettes of one group.
C23_Original ==
  /\ s_op = "rename_palette_group" =>
       LET old_pg == GroupsIn(s_before)
           new_pg == GroupsIn(s_file)
       IN  IF s_args.old_name \in DOMAIN old_pg
                /\ s_args.new_name \notin DOMAIN old_pg
             THEN /\ s_ret = "True"
                  /\ Renamed(old_pg, new_pg, s_args.old_name, s_args.new_name)
                  /\ SourcesIn(s_file) = SourcesIn(s_before)
             ELSE /\ s_ret = "False"
                  /\ s_file = s_before
  /\ s_op = "rename_palette_in_group" =>
       LET old_pg == GroupsIn(s_before)
           new_pg == GroupsIn(s_file)
           g      == s_args.group_name
       IN  IF /\ g \in DOMAIN old_pg
              /\ s_args.old_name \in DOMAIN old_pg[g]
              /\ s_args.new_name \notin DOMAIN old_pg[g]
             THEN /\ s_ret = "True"
                  /\ DOMAIN new_pg = DOMAIN old_pg
                  /\ Renamed(old_pg[g], new_pg[g], s_args.old_name,
                             s_args.new_name)
                  /\ \A h \in DOMAIN old_pg \ { g } : new_pg[h] = old_pg[h]
                  /\ SourcesIn(s_file) = SourcesIn(s_before)
             ELSE /\ s_ret = "False"
                  /\ s_file = s_before

\* ---------------------------------------------------------------------- C24

\* What a call names: the source palette, or the palette of the group.
NamedBy(c) ==
  IF c.op = "add_source_palette"
    THEN << "source_palettes", c.name >>
    ELSE << "palette_groups", c.group_name, c.palette_name >>

\* The file holds the effect of call c.
HoldsEffect(file, c) ==
  IF c.op = "add_source_palette"
    THEN /\ c.name \in DOMAIN SourcesIn(file)
         /\ SourcesIn(file)[c.name] = c.colors
    ELSE /\ c.group_name \in DOMAIN GroupsIn(file)
         /\ c.palette_name \in DOMAIN GroupsIn(file)[c.group_name]
         /\ GroupsIn(file)[c.group_name][c.palette_name] = c.colors

\* C24 (as stated): when two sessions ran store operations on different
\* names at the same time and both have returned, custom_palettes.json
\* holds the effect of both operations.
C24_Original ==
  ( /\ \A i \in Sessions : sessions[i].pc = "done"
    /\ \A i \in Sessions : \A j \in Sessions \ { i } :
         NamedBy(sessions[i].call) # NamedBy(sessions[j].call) )
  => \A i \in Sessions : HoldsEffect(s_file, sessions[i].call)

\* ---------------------------------------------------------------------- C25

\* C25 (as stated): when run_cli found PNG files that all hold an image, it
\* does not raise, whatever the store holds: with source palettes in the
\* store it runs with the one named "Default" if there is one and with the
\* first one otherwise, and with no source palette in the store it still
\* ends normally.
C25_Original ==
  ( /\ b_next >= 1
    /\ b_folder # << >>
    /\ \A i \in DOMAIN b_folder : b_folder[i].content # "truncated" )
  => /\ b_pc # "crashed"
     /\ b_sources # << >> =>
          b_source = IF \E k \in DOMAIN b_sources : b_sources[k] = "Default"
                       THEN "Default"
                       ELSE b_sources[1]

====
